---------------------------- MODULE Spec2Model ----------------------------
(***************************************************************************)
(* A model of the Gmail assistant of multi_tool_agent:                     *)
(*   - quickstart.py: class GmailAgent, its five tool operations and the   *)
(*     helpers they use (_get_email_body, _create_reply_message);          *)
(*   - agent.py / agentMULTI.py: the instructions that drive the tools     *)
(*     (the workflows for summarizing and for replying).                   *)
(*                                                                         *)
(* Python strings are sequences of one-character strings, so that strip(), *)
(* lower(), startswith(), find() and slicing are computed, not assumed.    *)
(* A Python dict is a record; an absent key is an absent field.            *)
(* A call of a collaborator (the Gmail service, the Gemini model) is an    *)
(* outcome chosen by the environment: a value, or a raised exception of    *)
(* class HttpError or of another class derived from Exception.             *)
(***************************************************************************)
EXTENDS Integers, Sequences, FiniteSets, TLC

VARIABLES
    \* ---- GmailAgent object (quickstart.py:26-31) and module state
    service,          \* self.service is not None
    gemini_model,     \* self.gemini_model is not None
    agent_tools,      \* the module-level list agent_tools, as a set of names
    \* ---- the conversation the agent instruction drives
    wf,               \* stage of the replying workflow
    ctx,              \* details remembered from the last successful summary
    draft,            \* reply draft remembered from the last generation
    shown,            \* the draft as it was shown to the user
    response,         \* the user's answer to the confirmation question
    confirmations,    \* number of affirmative answers observed
    sendInvocations,  \* number of send_reply calls made by the agent
    \* ---- the last tool call
    op,               \* name of the operation (or of the non-tool step)
    call,             \* its arguments and the collaborators' behaviour
    result,           \* the dict it returned (or the exception that escaped)
    trace,            \* the collaborator calls it made, in order
    \* ---- the remote mailbox
    outbox,           \* messages the mailbox service accepted for sending
    sendRequests,     \* number of messages().send requests received
    \* ---- pure helpers exercised on their own
    pc, arg, out

wfvars  == <<wf, ctx, draft, shown, response, confirmations, sendInvocations>>
objvars == <<service, gemini_model, agent_tools>>
opvars  == <<op, call, result, trace>>
mbxvars == <<outbox, sendRequests>>
fnvars  == <<pc, arg, out>>
vars    == <<objvars, wfvars, opvars, mbxvars, fnvars>>

-----------------------------------------------------------------------------
(* Bounds of the model *)

\* longest references / message id given to the reply composer
MaxLen == 3
\* longest subject given to the subject rule
MaxSubjectLen == 4

\* Python's None where a str is expected (a thread id the message lacks)
PyNone == "None"

\* an optional value: <<>> for None, <<v>> for v
Some(v) == <<v>>

RECURSIVE SeqsUpTo(_, _)
SeqsUpTo(S, n) ==
    IF n = 0 THEN {<<>>}
    ELSE LET shorter == SeqsUpTo(S, n - 1)
         IN  shorter \cup {Append(s, c) : s \in {t \in shorter : Len(t) = n - 1}, c \in S}

-----------------------------------------------------------------------------
(* Python str methods *)

\* characters str.strip() removes (the ones the model's alphabets hold)
IsSpace(c) == c \in {" ", "\t", "\n", "\r"}

RECURSIVE LStrip(_)
LStrip(s) == IF s # <<>> /\ IsSpace(Head(s)) THEN LStrip(Tail(s)) ELSE s

RECURSIVE RStrip(_)
RStrip(s) ==
    IF s # <<>> /\ IsSpace(s[Len(s)]) THEN RStrip(SubSeq(s, 1, Len(s) - 1)) ELSE s

\* str.strip()
Strip(s) == RStrip(LStrip(s))

LowerChar(c) ==
    CASE c = "R" -> "r"
      [] c = "E" -> "e"
      [] OTHER   -> c

\* str.lower()
Lower(s) == [i \in 1..Len(s) |-> LowerChar(s[i])]

\* str.startswith(prefix)
StartsWith(s, prefix) ==
    Len(s) >= Len(prefix) /\ SubSeq(s, 1, Len(prefix)) = prefix

-----------------------------------------------------------------------------
(* GmailAgent._create_reply_message and the subject rule of send_reply *)

RePrefix == <<"R", "e", ":", " ">>

\* mutant: the prefix test forgets .lower()
NormalizeSubject_CaseSensitive(subject) ==
    IF ~StartsWith(subject, <<"R", "e", ":">>) THEN RePrefix \o subject ELSE subject

\* quickstart.py:395-397
NormalizeSubject(subject) ==
    IF ~StartsWith(Lower(subject), <<"r", "e", ":">>)
    THEN RePrefix \o subject
    ELSE subject

\* mutant: the concatenation is not stripped
NewReferences_NoStrip(references, original_message_id) ==
    IF references # <<>>
    THEN references \o <<" ">> \o original_message_id
    ELSE original_message_id

\* mutant: the message id is put before the references
NewReferences_IdFirst(references, original_message_id) ==
    IF references # <<>>
    THEN Strip(original_message_id \o <<" ">> \o references)
    ELSE original_message_id

\* quickstart.py:353
NewReferences(references, original_message_id) ==
    IF references # <<>>
    THEN Strip(references \o <<" ">> \o original_message_id)
    ELSE original_message_id

\* quickstart.py:346-355: the header list of the MIME message, in the order set
ReplyHeaders(sender, to, subject, original_message_id, references) ==
    <<  <<"to", to>>, <<"from", sender>>, <<"subject", subject>> >>
    \o (IF original_message_id # <<>>
        THEN << <<"In-Reply-To", original_message_id>> >> ELSE <<>>)
    \o (IF NewReferences(references, original_message_id) # <<>>
        THEN << <<"References", NewReferences(references, original_message_id)>> >>
        ELSE <<>>)

\* quickstart.py:320-361. 'raw' stands for the base64url text of the serialized
\* message: the headers in order and the one text/plain utf-8 part.
CreateReplyMessage(sender, to, subject, reply_body, thread_id, original_message_id, references) ==
    [raw      |-> [headers |-> ReplyHeaders(sender, to, subject,
                                            original_message_id, references),
                   parts   |-> << [mimeType |-> "text/plain",
                                   charset  |-> "utf-8",
                                   text     |-> reply_body] >>],
     threadId |-> thread_id]

\* message[name] of email.message.Message: the first header of that name
HasHeader(msg, name) == \E i \in 1..Len(msg.raw.headers) : msg.raw.headers[i][1] = name

HeaderValue(msg, name) ==
    LET i == CHOOSE k \in 1..Len(msg.raw.headers) :
                 /\ msg.raw.headers[k][1] = name
                 /\ \A j \in 1..(k - 1) : msg.raw.headers[j][1] # name
    IN  msg.raw.headers[i][2]

-----------------------------------------------------------------------------
(* The user's mailbox, as the Gmail service returns it *)

NoSubject     == <<"N", "o", " ", "S", "u", "b", "j", "e", "c", "t">>
UnknownSender == <<"U", "n", "k", "n", "o", "w", "n", " ", "S", "e", "n", "d", "e", "r">>
NoDate        == <<"N", "o", " ", "D", "a", "t", "e">>
\* quickstart.py:248
Placeholder ==
    <<"C", "o", "u", "l", "d", " ", "n", "o", "t", " ", "e", "x", "t", "r",
       "a", "c", "t", " ", "e", "m", "a", "i", "l", " ", "b", "o", "d", "y",
       " ", "t", "o", " ", "s", "u", "m", "m", "a", "r", "i", "z", "e", ".">>

EmailIds == {"m1", "m2", "m3"}

\* base64url text that decodes to t / text that is no base64url at all
B64(t)  == [enc |-> "b64", text |-> t]
BadData == [enc |-> "bad"]

\* the mails of the mailbox: a multipart mail with a display-name sender, a
\* reply whose only part has no data, and a bare html mail without headers
Mail1 ==
    [id |-> "m1", threadId |-> "t1",
     payload |->
       [mimeType |-> "multipart/alternative",
        headers |-> << [name |-> "Subject", value |-> <<"h", "i">>],
                       [name |-> "From", value |-> <<"A", " ", "<", "a", "@", "x", ">">>],
                       [name |-> "Date", value |-> <<"d", "1">>],
                       [name |-> "Message-ID", value |-> <<"<", "1", ">">>] >>,
        parts |-> << [mimeType |-> "text/html", body |-> [data |-> B64(<<"<", "p", ">">>)]],
                     [mimeType |-> "text/plain", body |-> [data |-> B64(<<"y", "o">>)]] >>]]

Mail2 ==
    [id |-> "m2", threadId |-> "t2",
     payload |->
       [mimeType |-> "text/plain",
        headers |-> << [name |-> "subject", value |-> <<"R", "E", ":", " ", "h", "i">>],
                       [name |-> "FROM", value |-> <<"b", "@", "x">>],
                       [name |-> "Message-Id", value |-> <<"<", "2", ">">>],
                       [name |-> "References", value |-> <<"<", "0", ">", " ", "<", "1", ">">>] >>,
        body |-> [size |-> 0]]]

Mail3 ==
    [id |-> "m3",
     payload |->
       [mimeType |-> "text/html",
        body |-> [data |-> B64(<<"<", "b", ">">>)]]]

\* users().messages().get(userId="me", id=id)
Message(id) ==
    CASE id = "m1" -> Mail1
      [] id = "m2" -> Mail2
      [] OTHER     -> Mail3

\* h['name'].lower() for the spellings of the header names in the mailbox
LowerName(n) ==
    CASE n \in {"Subject", "subject", "SUBJECT"}          -> "subject"
      [] n \in {"From", "from", "FROM"}                   -> "from"
      [] n \in {"Date", "date", "DATE"}                   -> "date"
      [] n \in {"Message-ID", "Message-Id", "message-id"} -> "message-id"
      [] n \in {"References", "references"}               -> "references"
      [] OTHER                                            -> n

\* next((h['value'] for h in headers if h['name'].lower() == name), default)
HeaderOr(headers, name, default) ==
    IF \E i \in 1..Len(headers) : LowerName(headers[i].name) = name
    THEN headers[CHOOSE i \in 1..Len(headers) :
                    /\ LowerName(headers[i].name) = name
                    /\ \A j \in 1..(i - 1) : LowerName(headers[j].name) # name].value
    ELSE default

\* dict.get(key, default)
Get(d, key, default) == IF key \in DOMAIN d THEN d[key] ELSE default

-----------------------------------------------------------------------------
(* Outcomes of calls and of try blocks *)

Ok(v)      == [kind |-> "ok", value |-> v]
Raise(cls) == [kind |-> cls]
\* the classes of exception a collaborator raises
Raised     == {"HttpError", "Exception"}

Success(fields) == [status |-> "success"] @@ fields
Error(msg)      == [status |-> "error", error_message |-> msg]
\* an exception that leaves the operation
Escapes(cls)    == [escaped |-> cls]

\* mutant: only the HttpError clause is there
Except_OnlyHttpError(cls, httpMsg, otherMsg) ==
    IF cls = "HttpError" THEN Error(httpMsg) ELSE Escapes(cls)

\* the clauses "except HttpError as error: ... except Exception as e: ..." that
\* close each operation (quickstart.py:190-195, 269-274, 412-417, 480-485)
Except(cls, httpMsg, otherMsg) ==
    IF cls = "HttpError" THEN Error(httpMsg) ELSE Error(otherMsg)

-----------------------------------------------------------------------------
(* GmailAgent._get_email_body *)

\* base64.urlsafe_b64decode(data).decode("utf-8", errors='replace')
Decode(data) == IF data.enc = "b64" THEN Ok(data.text) ELSE Raise("Exception")

\* a missing or empty 'data': what "if data:" rejects
NoData == [enc |-> "none"]

\* the body of a payload in which nothing matches (quickstart.py:103, 127)
EmptyBody == Ok(<<>>)
\* {} as the default of dict.get
EmptyDict == <<>>

\* part.get("body", {}).get("data")
DataOf(part) == Get(Get(part, "body", EmptyDict), "data", NoData)

IsTextType(mimeType) == mimeType \in {"text/plain", "text/html", "text/calendar"}

\* quickstart.py:105-109: the first text/plain part at this level that has data
PlainParts(parts) ==
    {i \in 1..Len(parts) : Get(parts[i], "mimeType", "") = "text/plain" /\ DataOf(parts[i]) # NoData}

RECURSIVE GetEmailBody(_)
RECURSIVE ScanParts(_, _, _)

\* quickstart.py:111-120: the second loop from part i on, body being the html
\* fallback captured so far
ScanParts(parts, i, body) ==
    IF i > Len(parts) THEN Ok(body)
    ELSE IF "parts" \in DOMAIN parts[i]
    THEN LET nested == GetEmailBody(parts[i])
         IN  IF nested.kind # "ok" THEN nested
             ELSE IF nested.value # <<>> THEN nested
             ELSE ScanParts(parts, i + 1, body)
    ELSE IF Get(parts[i], "mimeType", "") = "text/html" /\ DataOf(parts[i]) # NoData /\ body = <<>>
    THEN LET d == Decode(DataOf(parts[i]))
         IN  IF d.kind # "ok" THEN d ELSE ScanParts(parts, i + 1, d.value)
    ELSE ScanParts(parts, i + 1, body)

\* quickstart.py:102-127
GetEmailBody(payload) ==
    IF "parts" \in DOMAIN payload
    THEN IF PlainParts(payload.parts) # {}
         THEN Decode(DataOf(payload.parts[CHOOSE i \in PlainParts(payload.parts) :
                                            \A j \in PlainParts(payload.parts) : i <= j]))
         ELSE ScanParts(payload.parts, 1, <<>>)
    ELSE IF IsTextType(Get(payload, "mimeType", "")) /\ DataOf(payload) # NoData
    THEN Decode(DataOf(payload))
    ELSE EmptyBody

-----------------------------------------------------------------------------
(* Python helpers of summarize_email_with_gemini *)

\* str.find(c): 0-based index of the first c, or -1
Find(s, c) ==
    IF \E i \in 1..Len(s) : s[i] = c
    THEN (CHOOSE i \in 1..Len(s) : s[i] = c /\ \A j \in 1..(i - 1) : s[j] # c) - 1
    ELSE -1

\* s[start:end] for 0 <= start <= end <= len(s)
Slice(s, start, end) == SubSeq(s, start + 1, end)

\* quickstart.py:237-242
ExtractSenderAddress(sender_header) ==
    IF Find(sender_header, "<") >= 0 /\ Find(sender_header, ">") >= 0
    THEN LET start == Find(sender_header, "<") + 1
             end   == Find(sender_header, ">")
         IN  IF start < end THEN Slice(sender_header, start, end) ELSE sender_header
    ELSE sender_header

-----------------------------------------------------------------------------
(* The five operations of GmailAgent.                                      *)
(* Each takes the object's fields, its arguments and env, the behaviour of *)
(* the collaborators during the call, and gives the dict returned and the  *)
(* collaborator calls made, in order.                                      *)

Returns(res, calls) == [result |-> res, trace |-> calls]

\* what send_reply gives: the dict, the calls, and the messages the mailbox
\* service accepted
Sends(res, calls, accepted) == [result |-> res, trace |-> calls, sent |-> accepted]

\* the early returns that make no call (quickstart.py:148-149, 221-224,
\* 295-296, 387-388, 438-439)
ServiceUnavailable     == Returns(Error("Gmail service not available."), <<>>)
ModelUnavailable       == Returns(Error("Gemini model not initialized."), <<>>)
SendServiceUnavailable == Sends(Error("Gmail service not available."), <<>>, <<>>)
\* quickstart.py:157-159 / 447-449
NoEmails == Returns(Success([emails |-> <<>>]), <<"messages.list">>)
\* quickstart.py:254-256
GenerationFailed == Returns(Error("Gemini content generation failed"), <<"messages.get", "generate_content">>)
\* quickstart.py:392-393
NoSenderAddress == Sends(Error("Could not determine sender email address from profile."), <<"getProfile">>, <<>>)

\* quickstart.py:170-182 / 460-472
MetadataRecord(msg_id, msg) ==
    LET headers == Get(Get(msg, "payload", EmptyDict), "headers", <<>>)
    IN  [id       |-> msg_id,
         threadId |-> Get(msg, "threadId", PyNone),
         subject  |-> HeaderOr(headers, "subject", NoSubject),
         from     |-> HeaderOr(headers, "from", UnknownSender),
         date     |-> HeaderOr(headers, "date", NoDate)]

\* mutant: a failing metadata fetch ends the loop
FetchLoop_StopAtFailure(ids, gets) ==
    LET RECURSIVE Loop(_, _)
        Loop(i, email_list) ==
            IF i > Len(ids) THEN email_list
            ELSE IF gets[i] = "ok"
            THEN Loop(i + 1, Append(email_list, MetadataRecord(ids[i], Message(ids[i]))))
            ELSE email_list
    IN  Loop(1, <<>>)

\* quickstart.py:161-186 / 451-476: the loop over the listed stubs; gets[i] is
\* the outcome of the i-th messages().get
FetchLoop(ids, gets) ==
    LET RECURSIVE Loop(_, _)
        Loop(i, email_list) ==
            IF i > Len(ids) THEN email_list
            ELSE IF gets[i] = "ok"
            THEN Loop(i + 1, Append(email_list, MetadataRecord(ids[i], Message(ids[i]))))
            ELSE Loop(i + 1, email_list)
    IN  Loop(1, <<>>)

\* mutant: a listing without messages is reported as an error
ListAndFetch_EmptyIsError(svc, env, httpMsg, otherMsg) ==
    IF ~svc THEN ServiceUnavailable
    ELSE IF env.list.kind # "ok"
    THEN Returns(Except(env.list.kind, httpMsg, otherMsg), <<"messages.list">>)
    ELSE LET messages == Get(env.list.value, "messages", <<>>)
         IN  IF messages = <<>>
             THEN Returns(Error(otherMsg), <<"messages.list">>)
             ELSE Returns(Success([emails |-> FetchLoop(messages, env.gets)]),
                          <<"messages.list">> \o [i \in 1..Len(messages) |-> "messages.get"])

\* the body shared by list_recent_emails and search_emails, which differ in
\* the listing request and in the messages
ListAndFetch(svc, env, httpMsg, otherMsg) ==
    IF ~svc THEN ServiceUnavailable
    ELSE IF env.list.kind # "ok"
    THEN Returns(Except(env.list.kind, httpMsg, otherMsg), <<"messages.list">>)
    ELSE LET messages == Get(env.list.value, "messages", <<>>)
         IN  IF messages = <<>>
             THEN NoEmails
             ELSE Returns(Success([emails |-> FetchLoop(messages, env.gets)]),
                          <<"messages.list">> \o [i \in 1..Len(messages) |-> "messages.get"])

\* quickstart.py:129-195
ListRecentEmails(svc, max_results, env) ==
    ListAndFetch(svc, env, "An API error occurred listing emails",
                 "An unexpected error occurred listing emails")

\* quickstart.py:419-485
SearchEmails(svc, query, max_results, env) ==
    ListAndFetch(svc, env, "An API error occurred searching emails",
                 "An unexpected error occurred searching emails")

\* mutant: the generation backend is called whatever the body
SummarizeEmail_AlwaysGenerate(svc, gm, email_id, env) ==
    IF ~svc THEN ServiceUnavailable
    ELSE IF ~gm THEN ModelUnavailable
    ELSE IF env.get.kind # "ok"
    THEN Returns(Except(env.get.kind, "An API error occurred fetching email",
                        "An unexpected error occurred during summarization"),
                 <<"messages.get">>)
    ELSE LET message == env.get.value
             payload == Get(message, "payload", EmptyDict)
             headers == Get(payload, "headers", <<>>)
             sender_header == HeaderOr(headers, "from", <<>>)
             email_body == GetEmailBody(payload)
             details(summary_text) ==
                 [summary             |-> summary_text,
                  subject             |-> HeaderOr(headers, "subject", NoSubject),
                  original_body       |-> email_body.value,
                  sender_email        |-> ExtractSenderAddress(sender_header),
                  thread_id           |-> Get(message, "threadId", PyNone),
                  original_message_id |-> HeaderOr(headers, "message-id", <<>>),
                  references          |-> HeaderOr(headers, "references", <<>>)]
         IN  IF email_body.kind # "ok"
             THEN Returns(Except(email_body.kind, "An API error occurred fetching email",
                                 "An unexpected error occurred during summarization"),
                          <<"messages.get">>)
             ELSE IF env.gen.kind # "ok"
             THEN GenerationFailed
             ELSE Returns(Success(details(env.gen.value)),
                          <<"messages.get", "generate_content">>)

\* mutant: the model is tested only when the summary is about to be generated
SummarizeEmail_ModelCheckedLate(svc, gm, email_id, env) ==
    IF ~svc THEN ServiceUnavailable
    ELSE IF env.get.kind # "ok"
    THEN Returns(Except(env.get.kind, "An API error occurred fetching email",
                        "An unexpected error occurred during summarization"),
                 <<"messages.get">>)
    ELSE IF ~gm THEN Returns(Error("Gemini model not initialized."), <<"messages.get">>)
    ELSE LET message == env.get.value
             payload == Get(message, "payload", EmptyDict)
             headers == Get(payload, "headers", <<>>)
             sender_header == HeaderOr(headers, "from", <<>>)
             email_body == GetEmailBody(payload)
             details(summary_text) ==
                 [summary             |-> summary_text,
                  subject             |-> HeaderOr(headers, "subject", NoSubject),
                  original_body       |-> email_body.value,
                  sender_email        |-> ExtractSenderAddress(sender_header),
                  thread_id           |-> Get(message, "threadId", PyNone),
                  original_message_id |-> HeaderOr(headers, "message-id", <<>>),
                  references          |-> HeaderOr(headers, "references", <<>>)]
         IN  IF email_body.kind # "ok"
             THEN Returns(Except(email_body.kind, "An API error occurred fetching email",
                                 "An unexpected error occurred during summarization"),
                          <<"messages.get">>)
             ELSE IF email_body.value = <<>>
             THEN Returns(Success(details(Placeholder)), <<"messages.get">>)
             ELSE IF env.gen.kind # "ok"
             THEN GenerationFailed
             ELSE Returns(Success(details(env.gen.value)),
                          <<"messages.get", "generate_content">>)

\* quickstart.py:197-274
SummarizeEmail(svc, gm, email_id, env) ==
    IF ~svc THEN ServiceUnavailable
    ELSE IF ~gm THEN ModelUnavailable
    ELSE IF env.get.kind # "ok"
    THEN Returns(Except(env.get.kind, "An API error occurred fetching email",
                        "An unexpected error occurred during summarization"),
                 <<"messages.get">>)
    ELSE LET message == env.get.value
             payload == Get(message, "payload", EmptyDict)
             headers == Get(payload, "headers", <<>>)
             sender_header == HeaderOr(headers, "from", <<>>)
             email_body == GetEmailBody(payload)
             details(summary_text) ==
                 [summary             |-> summary_text,
                  subject             |-> HeaderOr(headers, "subject", NoSubject),
                  original_body       |-> email_body.value,
                  sender_email        |-> ExtractSenderAddress(sender_header),
                  thread_id           |-> Get(message, "threadId", PyNone),
                  original_message_id |-> HeaderOr(headers, "message-id", <<>>),
                  references          |-> HeaderOr(headers, "references", <<>>)]
         IN  IF email_body.kind # "ok"
             THEN Returns(Except(email_body.kind, "An API error occurred fetching email",
                                 "An unexpected error occurred during summarization"),
                          <<"messages.get">>)
             ELSE IF email_body.value = <<>>
             THEN Returns(Success(details(Placeholder)), <<"messages.get">>)
             ELSE IF env.gen.kind # "ok"
             THEN GenerationFailed
             ELSE Returns(Success(details(env.gen.value)),
                          <<"messages.get", "generate_content">>)

\* quickstart.py:276-318
GenerateReply(gm, original_subject, original_body, env) ==
    IF ~gm THEN ModelUnavailable
    ELSE IF env.gen.kind # "ok"
    THEN Returns(Except(env.gen.kind, "An error occurred during reply generation",
                        "An error occurred during reply generation"),
                 <<"generate_content">>)
    ELSE Returns(Success([reply_body |-> Strip(env.gen.value)]), <<"generate_content">>)

\* mutant: a failed messages().send is tried a second time
SendReply_Retry(svc, to, subject, reply_body, thread_id, original_message_id, references, env) ==
    IF ~svc THEN SendServiceUnavailable
    ELSE IF env.profile.kind # "ok"
    THEN Sends(Except(env.profile.kind, "An API error occurred sending the reply",
                      "An unexpected error occurred sending the reply"),
               <<"getProfile">>, <<>>)
    ELSE LET actual_sender == Get(env.profile.value, "emailAddress", <<>>)
             msg == CreateReplyMessage(actual_sender, to, NormalizeSubject(subject), reply_body,
                                       thread_id, original_message_id, references)
         IN  IF actual_sender = <<>>
             THEN NoSenderAddress
             ELSE IF env.send.kind # "ok"
             THEN Sends(Success([message_id |-> "s1"]),
                        <<"getProfile", "messages.send", "messages.send">>,
                        (IF env.send.delivered THEN <<msg>> ELSE <<>>) \o <<msg>>)
             ELSE Sends(Success([message_id |-> env.send.value.id]),
                        <<"getProfile", "messages.send">>, <<msg>>)

\* mutant: the address of the profile is not tested before the send
SendReply_NoSenderCheck(svc, to, subject, reply_body, thread_id, original_message_id, references, env) ==
    IF ~svc THEN SendServiceUnavailable
    ELSE IF env.profile.kind # "ok"
    THEN Sends(Except(env.profile.kind, "An API error occurred sending the reply",
                      "An unexpected error occurred sending the reply"),
               <<"getProfile">>, <<>>)
    ELSE LET actual_sender == Get(env.profile.value, "emailAddress", <<>>)
             msg == CreateReplyMessage(actual_sender, to, NormalizeSubject(subject), reply_body,
                                       thread_id, original_message_id, references)
         IN  IF env.send.kind # "ok"
             THEN Sends(Except(env.send.kind, "An API error occurred sending the reply",
                               "An unexpected error occurred sending the reply"),
                        <<"getProfile", "messages.send">>,
                        IF env.send.delivered THEN <<msg>> ELSE <<>>)
             ELSE Sends(Success([message_id |-> env.send.value.id]),
                        <<"getProfile", "messages.send">>, <<msg>>)

\* quickstart.py:363-417. env.send.delivered: the mailbox service accepted the
\* message although the request then failed (a lost response)
SendReply(svc, to, subject, reply_body, thread_id, original_message_id, references, env) ==
    IF ~svc THEN SendServiceUnavailable
    ELSE IF env.profile.kind # "ok"
    THEN Sends(Except(env.profile.kind, "An API error occurred sending the reply",
                      "An unexpected error occurred sending the reply"),
               <<"getProfile">>, <<>>)
    ELSE LET actual_sender == Get(env.profile.value, "emailAddress", <<>>)
             msg == CreateReplyMessage(actual_sender, to, NormalizeSubject(subject), reply_body,
                                       thread_id, original_message_id, references)
         IN  IF actual_sender = <<>>
             THEN NoSenderAddress
             ELSE IF env.send.kind # "ok"
             THEN Sends(Except(env.send.kind, "An API error occurred sending the reply",
                               "An unexpected error occurred sending the reply"),
                        <<"getProfile", "messages.send">>,
                        IF env.send.delivered THEN <<msg>> ELSE <<>>)
             ELSE Sends(Success([message_id |-> env.send.value.id]),
                        <<"getProfile", "messages.send">>, <<msg>>)

\* number of calls of api in a trace
Count(calls, api) == Cardinality({i \in 1..Len(calls) : calls[i] = api})

-----------------------------------------------------------------------------
(* Module initialization: gmail_agent = GmailAgent() and agent_tools *)

Tools == {"list_recent_emails", "search_emails", "summarize_email_with_gemini",
          "generate_reply_with_gemini", "send_reply"}

\* mutant: the tools are handed over as soon as the mailbox service is there
AgentTools_ServiceOnly(svc, gm) == IF svc THEN Tools ELSE {}

\* quickstart.py:489-500
AgentTools(svc, gm) == IF svc /\ gm THEN Tools ELSE {}

\* quickstart.py:26-39, 487-500: either initialization may have failed
InitObject ==
    /\ service \in BOOLEAN
    /\ gemini_model \in BOOLEAN
    /\ agent_tools = AgentTools(service, gemini_model)

InitConversation ==
    /\ wf = "Idle"
    /\ ctx = <<>>
    /\ draft = <<>>
    /\ shown = <<>>
    /\ response = "none"
    /\ confirmations = 0
    /\ sendInvocations = 0

InitLastCall ==
    /\ op = "none"
    /\ call = [args |-> <<>>]
    /\ result = [status |-> "none"]
    /\ trace = <<>>

InitMailbox ==
    /\ outbox = <<>>
    /\ sendRequests = 0

InitHelpers ==
    /\ pc = "idle"
    /\ arg = <<>>
    /\ out = <<>>

-----------------------------------------------------------------------------
(* Behaviours of the collaborators *)

\* longest listing the mailbox service returns
MaxList == 3
Outcomes == {"ok"} \cup Raised

\* sequences of distinct message ids, as a listing returns them
Listings(n) == {s \in SeqsUpTo(EmailIds, n) : \A i, j \in 1..Len(s) : i # j => s[i] # s[j]}

\* a listing whose 'messages' is the empty list
EmptyListing == [list |-> Ok([messages |-> <<>>]), gets |-> <<>>]

\* users().messages().list(...).execute(), then one messages().get per stub
ListEnvs(max_results) ==
    {[list |-> Raise(c)] : c \in Raised}
    \cup {[list |-> Ok([resultSizeEstimate |-> 0])], EmptyListing}
    \cup UNION {{[list |-> Ok([messages |-> ids]), gets |-> g] : g \in [1..Len(ids) -> Outcomes]} :
                   ids \in Listings(max_results) \ {<<>>}}

GenTexts == {<<"o", "k">>, <<" ", "n", "o", " ">>}

\* gemini_model.generate_content(prompt) and response.text
GenOutcomes == {Ok(t) : t \in GenTexts} \cup {Raise(c) : c \in Raised}

\* users().messages().get(id, format='full').execute()
GetOutcomes(email_id) == {Ok(Message(email_id))} \cup {Raise(c) : c \in Raised}

Me == <<"m", "e", "@", "x">>

\* users().getProfile(userId='me').execute()
ProfileOutcomes ==
    {Ok([emailAddress |-> Me, messagesTotal |-> 3]), Ok([messagesTotal |-> 3])}
    \cup {Raise(c) : c \in Raised}

\* users().messages().send(userId="me", body=...).execute()
SendOutcomes ==
    {[kind |-> "ok", value |-> [id |-> "s1"], delivered |-> TRUE]}
    \cup {[kind |-> c, delivered |-> d] : c \in Raised, d \in BOOLEAN}

-----------------------------------------------------------------------------
(* One call of one operation, on an object whose initialization may have   *)
(* failed, under every behaviour of the collaborators                      *)

Queries == {<<"f", "r", "o", "m", ":", "a">>}

\* details of the three mails, as a caller passes them to send_reply
ReplyArgs ==
    {[to |-> <<"a", "@", "x">>, subject |-> <<"h", "i">>, reply_body |-> <<"o", "k">>,
      thread_id |-> "t1", original_message_id |-> <<"<", "1", ">">>, references |-> <<>>],
     [to |-> <<"b", "@", "x">>, subject |-> <<"R", "E", ":", " ", "h", "i">>, reply_body |-> <<"n", "o">>,
      thread_id |-> "t2", original_message_id |-> <<"<", "2", ">">>,
      references |-> <<"<", "0", ">", " ", "<", "1", ">">>],
     [to |-> <<>>, subject |-> NoSubject, reply_body |-> <<"o", "k">>,
      thread_id |-> PyNone, original_message_id |-> <<>>, references |-> <<>>]}

Called(name, c, r) ==
    /\ op = "none"
    /\ op' = name
    /\ call' = c
    /\ result' = r.result
    /\ trace' = r.trace

CallList ==
    \E max_results \in 1..MaxList : \E env \in ListEnvs(max_results) :
        /\ Called("list_recent_emails", [max_results |-> max_results, env |-> env],
                  ListRecentEmails(service, max_results, env))
        /\ UNCHANGED <<objvars, wfvars, mbxvars, fnvars>>

CallSearch ==
    \E query \in Queries : \E max_results \in 1..MaxList : \E env \in ListEnvs(max_results) :
        /\ Called("search_emails", [query |-> query, max_results |-> max_results, env |-> env],
                  SearchEmails(service, query, max_results, env))
        /\ UNCHANGED <<objvars, wfvars, mbxvars, fnvars>>

CallSummarize ==
    \E email_id \in EmailIds : \E g \in GetOutcomes(email_id) : \E t \in GenOutcomes :
        /\ Called("summarize_email_with_gemini",
                  [email_id |-> email_id, env |-> [get |-> g, gen |-> t]],
                  SummarizeEmail(service, gemini_model, email_id, [get |-> g, gen |-> t]))
        /\ UNCHANGED <<objvars, wfvars, mbxvars, fnvars>>

CallGenerate ==
    \E a \in ReplyArgs : \E body \in {<<>>, <<"y", "o">>} : \E t \in GenOutcomes :
        /\ Called("generate_reply_with_gemini",
                  [original_subject |-> a.subject, original_body |-> body, env |-> [gen |-> t]],
                  GenerateReply(gemini_model, a.subject, body, [gen |-> t]))
        /\ UNCHANGED <<objvars, wfvars, mbxvars, fnvars>>

CallSend ==
    \E a \in ReplyArgs : \E p \in ProfileOutcomes : \E s \in SendOutcomes :
        LET env == [profile |-> p, send |-> s]
            r   == SendReply(service, a.to, a.subject, a.reply_body, a.thread_id,
                             a.original_message_id, a.references, env)
        IN  /\ Called("send_reply", [args |-> a, env |-> env], r)
            /\ outbox' = outbox \o r.sent
            /\ sendRequests' = sendRequests + Count(r.trace, "messages.send")
            /\ UNCHANGED <<objvars, wfvars, fnvars>>

InitFacade == InitObject /\ InitConversation /\ InitLastCall /\ InitMailbox /\ InitHelpers

NextFacade == CallList \/ CallSearch \/ CallSummarize \/ CallGenerate \/ CallSend

SpecFacade == InitFacade /\ [][NextFacade]_vars

-----------------------------------------------------------------------------
(* _create_reply_message on every references / message id pair *)

HeaderChars == {" ", "<", "a"}

InitCompose ==
    /\ InitObject /\ InitConversation /\ InitLastCall /\ InitMailbox
    /\ pc = "compose"
    /\ arg \in [references : SeqsUpTo(HeaderChars, MaxLen),
                original_message_id : SeqsUpTo(HeaderChars, MaxLen)]
    /\ out = <<>>

Compose ==
    /\ pc = "compose"
    /\ out' = CreateReplyMessage(Me, <<"a", "@", "x">>, RePrefix \o <<"h", "i">>, <<"o", "k">>,
                                 "t1", arg.original_message_id, arg.references)
    /\ pc' = "composed"
    /\ UNCHANGED <<objvars, wfvars, opvars, mbxvars, arg>>

SpecCompose == InitCompose /\ [][Compose]_vars

-----------------------------------------------------------------------------
(* the subject rule of send_reply on every subject *)

SubjectChars == {"R", "r", "E", "e", ":", " ", "x"}

InitSubject ==
    /\ InitObject /\ InitConversation /\ InitLastCall /\ InitMailbox
    /\ pc = "subject"
    /\ arg \in SeqsUpTo(SubjectChars, MaxSubjectLen)
    /\ out = <<>>

Normalize ==
    /\ pc = "subject"
    /\ out' = NormalizeSubject(arg)
    /\ pc' = "normalized"
    /\ UNCHANGED <<objvars, wfvars, opvars, mbxvars, arg>>

SpecSubject == InitSubject /\ [][Normalize]_vars

-----------------------------------------------------------------------------
(* _get_email_body on every payload tree *)

\* most parts of one multipart, and deepest nesting of multiparts
MaxParts == 2
MaxDepth == 2

\* the parts without parts of their own: content type and body, the body with
\* base64url data, with data that is no base64url, or without data
PlainLeaf    == [mimeType |-> "text/plain", body |-> [data |-> B64(<<"p">>)]]
PlainNoData  == [mimeType |-> "text/plain", body |-> [size |-> 0]]
PlainBadData == [mimeType |-> "text/plain", body |-> [data |-> BadData]]
HtmlLeaf     == [mimeType |-> "text/html", body |-> [data |-> B64(<<"h">>)]]
HtmlLeaf2    == [mimeType |-> "text/html", body |-> [data |-> B64(<<"g">>)]]
HtmlNoData   == [mimeType |-> "text/html", body |-> [size |-> 0]]
HtmlBadData  == [mimeType |-> "text/html", body |-> [data |-> BadData]]
CalendarLeaf == [mimeType |-> "text/calendar", body |-> [data |-> B64(<<"c">>)]]
ImageLeaf    == [mimeType |-> "image/png", body |-> [data |-> B64(<<"i">>)]]

LeafParts ==
    {PlainLeaf, PlainNoData, PlainBadData, HtmlLeaf, HtmlLeaf2, HtmlNoData, HtmlBadData,
     CalendarLeaf, ImageLeaf}

\* a payload with 'parts'
Multipart(parts) == [mimeType |-> "multipart/mixed", parts |-> parts]

\* the payloads nested at most d deep
RECURSIVE Payloads(_)
Payloads(d) ==
    IF d = 0 THEN LeafParts
    ELSE LeafParts \cup {Multipart(ps) : ps \in SeqsUpTo(Payloads(d - 1), MaxParts)}

InitBody ==
    /\ InitObject /\ InitConversation /\ InitLastCall /\ InitMailbox
    /\ pc = "body"
    /\ arg \in Payloads(MaxDepth)
    /\ out = <<>>

ExtractBody ==
    /\ pc = "body"
    /\ out' = GetEmailBody(arg)
    /\ pc' = "extracted"
    /\ UNCHANGED <<objvars, wfvars, opvars, mbxvars, arg>>

SpecBody == InitBody /\ [][ExtractBody]_vars

-----------------------------------------------------------------------------
(* the sender address of summarize_email_with_gemini on every From header *)

\* longest From header
MaxSenderLen == 4
SenderChars == {"<", ">", "a", " "}

\* a mail whose From header is the given text
MailFrom(sender_header) ==
    [id |-> "m4", threadId |-> "t4",
     payload |-> [mimeType |-> "text/plain",
                  headers  |-> << [name |-> "From", value |-> sender_header] >>,
                  body     |-> [data |-> B64(<<"y", "o">>)]]]

InitSender ==
    /\ InitObject /\ InitConversation /\ InitLastCall /\ InitMailbox
    /\ pc = "sender"
    /\ arg \in SeqsUpTo(SenderChars, MaxSenderLen)
    /\ out = <<>>

\* quickstart.py:237-242 on its own
ExtractSender ==
    /\ pc = "sender"
    /\ out' = ExtractSenderAddress(arg)
    /\ pc' = "address"
    /\ UNCHANGED <<objvars, wfvars, opvars, mbxvars, arg>>

\* summarize_email_with_gemini of the mail with that From header
SummarizeFrom ==
    /\ pc = "sender"
    /\ out' = SummarizeEmail(service, gemini_model, "m4",
                             [get |-> Ok(MailFrom(arg)), gen |-> Ok(<<"o", "k">>)]).result
    /\ pc' = "summarized"
    /\ UNCHANGED <<objvars, wfvars, opvars, mbxvars, arg>>

NextSender == ExtractSender \/ SummarizeFrom

SpecSender == InitSender /\ [][NextSender]_vars

-----------------------------------------------------------------------------
(* The conversation: the agent follows AGENT_INSTRUCTION (agent.py:13-38;   *)
(* ROOT_AGENT_INSTRUCTION and SEND_AGENT_INSTRUCTION of agentMULTI.py say   *)
(* the same of their sub-agents), calling the tools of agent_tools.         *)
(* wf is the step of "Workflow for Replying" the conversation has reached:  *)
(*   Summarized           step 1 done: the details of a mail are known      *)
(*   Drafted              step 2 done: a draft was generated                *)
(*   AwaitingConfirmation step 3 done: the draft was shown, the user asked  *)
(*   Sent                 step 4 done: send_reply succeeded                 *)
(*   Idle                 no reply is under way                             *)

\* most affirmative answers the user gives in one run
MaxConfirm == 2

\* the dict of a successful call without its status: what the agent remembers
Details(res) == [k \in (DOMAIN res) \ {"status"} |-> res[k]]

NoCall(name) ==
    /\ op' = name
    /\ call' = [args |-> <<>>]
    /\ result' = [status |-> "none"]
    /\ trace' = <<>>

Ran(name, c, r) ==
    /\ op' = name
    /\ call' = c
    /\ result' = r.result
    /\ trace' = r.trace

\* a new request of the user can be served: no answer about a draft is awaited
CanServe == wf \in {"Idle", "Summarized", "Sent"}

\* the listings the agent meets in a conversation
AgentListEnvs ==
    {[list |-> Raise("HttpError")],
     [list |-> Ok([messages |-> <<"m2", "m1">>]), gets |-> <<"HttpError", "ok">>]}

\* the mails the user asks about, and what the collaborators do meanwhile
AgentEmailIds    == {"m1", "m2"}
AgentGetOutcomes(email_id) == {Ok(Message(email_id)), Raise("HttpError")}
AgentSummaries   == {Ok(<<"o", "k">>), Raise("Exception")}
AgentDrafts      == {Ok(t) : t \in GenTexts} \cup {Raise("Exception")}
AgentProfiles    == ProfileOutcomes \ {Raise("Exception")}
AgentSends       ==
    {s \in SendOutcomes : s.kind = "ok" \/ (s.kind = "HttpError" /\ ~s.delivered)
                                        \/ (s.kind = "Exception" /\ s.delivered)}

\* agent.py:17, 26: "latest" or "recent" emails
AgentList ==
    \E env \in AgentListEnvs :
        /\ "list_recent_emails" \in agent_tools
        /\ CanServe
        /\ Ran("list_recent_emails", [max_results |-> MaxList, env |-> env],
               ListRecentEmails(service, MaxList, env))
        /\ UNCHANGED <<objvars, wfvars, mbxvars, fnvars>>

\* agent.py:18, 26: emails "from someone" or "about something"
AgentSearch ==
    \E query \in Queries : \E env \in AgentListEnvs :
        /\ "search_emails" \in agent_tools
        /\ CanServe
        /\ Ran("search_emails", [query |-> query, max_results |-> MaxList, env |-> env],
               SearchEmails(service, query, MaxList, env))
        /\ UNCHANGED <<objvars, wfvars, mbxvars, fnvars>>

\* mutant: a failed summary makes the agent forget the details it had
AgentSummarize_ForgetOnError ==
    \E email_id \in AgentEmailIds : \E g \in AgentGetOutcomes(email_id) : \E t \in AgentSummaries :
        LET env == [get |-> g, gen |-> t]
            r   == SummarizeEmail(service, gemini_model, email_id, env)
        IN  /\ "summarize_email_with_gemini" \in agent_tools
            /\ CanServe
            /\ Ran("summarize_email_with_gemini", [email_id |-> email_id, env |-> env], r)
            /\ IF r.result.status = "success"
               THEN wf' = "Summarized" /\ ctx' = Some(Details(r.result))
               ELSE wf' = "Idle" /\ ctx' = <<>>
            /\ UNCHANGED <<objvars, draft, shown, response, confirmations, sendInvocations,
                           mbxvars, fnvars>>

\* mutant: the agent summarizes another mail while it awaits the user's answer
AgentSummarize_Anytime ==
    \E email_id \in AgentEmailIds : \E g \in AgentGetOutcomes(email_id) : \E t \in AgentSummaries :
        LET env == [get |-> g, gen |-> t]
            r   == SummarizeEmail(service, gemini_model, email_id, env)
        IN  /\ "summarize_email_with_gemini" \in agent_tools
            /\ Ran("summarize_email_with_gemini", [email_id |-> email_id, env |-> env], r)
            /\ IF r.result.status = "success"
               THEN ctx' = Some(Details(r.result))
                    /\ wf' = (IF CanServe THEN "Summarized" ELSE wf)
               ELSE UNCHANGED <<wf, ctx>>
            /\ UNCHANGED <<objvars, draft, shown, response, confirmations, sendInvocations,
                           mbxvars, fnvars>>

\* agent.py:24-29 and step 1 of the replying workflow (agent.py:32): the
\* details of the mail come from summarize_email_with_gemini; an error is
\* reported to the user (agent.py:37) and nothing else
AgentSummarize ==
    \E email_id \in AgentEmailIds : \E g \in AgentGetOutcomes(email_id) : \E t \in AgentSummaries :
        LET env == [get |-> g, gen |-> t]
            r   == SummarizeEmail(service, gemini_model, email_id, env)
        IN  /\ "summarize_email_with_gemini" \in agent_tools
            /\ CanServe
            /\ Ran("summarize_email_with_gemini", [email_id |-> email_id, env |-> env], r)
            /\ IF r.result.status = "success"
               THEN wf' = "Summarized" /\ ctx' = Some(Details(r.result))
               ELSE UNCHANGED <<wf, ctx>>
            /\ UNCHANGED <<objvars, draft, shown, response, confirmations, sendInvocations,
                           mbxvars, fnvars>>

\* step 2 (agent.py:33): generate_reply_with_gemini with the subject and body
\* obtained from the summary tool; the draft is remembered with the details it
\* answers
AgentGenerate ==
    \E t \in AgentDrafts :
        LET env == [gen |-> t]
            r   == GenerateReply(gemini_model, ctx[1].subject, ctx[1].original_body, env)
        IN  /\ "generate_reply_with_gemini" \in agent_tools
            /\ CanServe
            /\ ctx # <<>>
            /\ Ran("generate_reply_with_gemini",
                   [original_subject |-> ctx[1].subject, original_body |-> ctx[1].original_body,
                    env |-> env], r)
            /\ IF r.result.status = "success"
               THEN wf' = "Drafted" /\ draft' = Some([body |-> r.result.reply_body, of |-> ctx[1]])
               ELSE UNCHANGED <<wf, draft>>
            /\ UNCHANGED <<objvars, ctx, shown, response, confirmations, sendInvocations,
                           mbxvars, fnvars>>

\* step 3 (agent.py:34): show the draft and ask for confirmation
ShowDraft ==
    /\ wf = "Drafted"
    /\ wf' = "AwaitingConfirmation"
    /\ shown' = Some(draft[1].body)
    /\ response' = "none"
    /\ NoCall("show_draft")
    /\ UNCHANGED <<objvars, ctx, draft, confirmations, sendInvocations, mbxvars, fnvars>>

Answers == {"affirmative", "negative", "other"}

\* the user answers the question of step 3; agentMULTI.py:30: "If the user
\* does not confirm, do not proceed with sending"
UserResponds ==
    \E answer \in Answers :
        /\ wf = "AwaitingConfirmation"
        /\ response = "none"
        /\ response' = answer
        /\ IF answer = "affirmative"
           THEN /\ confirmations < MaxConfirm
                /\ confirmations' = confirmations + 1
                /\ wf' = wf
           ELSE /\ wf' = "Idle"
                /\ confirmations' = confirmations
        /\ NoCall("user_response")
        /\ UNCHANGED <<objvars, ctx, draft, shown, sendInvocations, mbxvars, fnvars>>

\* what step 4 does once its condition holds
SendConfirmed(consume) ==
    \E p \in AgentProfiles : \E s \in AgentSends :
        LET env  == [profile |-> p, send |-> s]
            args == [to |-> ctx[1].sender_email, subject |-> ctx[1].subject,
                     reply_body |-> draft[1].body, thread_id |-> ctx[1].thread_id,
                     original_message_id |-> ctx[1].original_message_id,
                     references |-> ctx[1].references]
            r    == SendReply(service, args.to, args.subject, args.reply_body, args.thread_id,
                              args.original_message_id, args.references, env)
        IN  /\ "send_reply" \in agent_tools
            /\ Ran("send_reply", [args |-> args, env |-> env], r)
            /\ sendInvocations' = sendInvocations + 1
            /\ outbox' = outbox \o r.sent
            /\ sendRequests' = sendRequests + Count(r.trace, "messages.send")
            /\ response' = (IF consume THEN "none" ELSE response)
            /\ wf' = (IF r.result.status = "success" THEN "Sent" ELSE wf)
            /\ UNCHANGED <<objvars, ctx, draft, shown, confirmations, fnvars>>

\* mutant: the draft is sent as soon as it was shown
AgentSend_NoGate == wf = "AwaitingConfirmation" /\ sendInvocations < MaxConfirm /\ SendConfirmed(TRUE)

\* mutant: after a failed send the agent sends again on the same confirmation
AgentSend_Again ==
    wf = "AwaitingConfirmation" /\ response = "affirmative" /\ SendConfirmed(FALSE)

\* steps 4 and 5 (agent.py:35-36; agentMULTI.py:100: "exactly once per valid
\* request"): if the user confirms, send_reply with the details from the
\* summary tool and the generated body, then report the outcome
AgentSend ==
    wf = "AwaitingConfirmation" /\ response = "affirmative" /\ SendConfirmed(TRUE)

Init == InitObject /\ InitConversation /\ InitLastCall /\ InitMailbox /\ InitHelpers

Next ==
    \/ AgentList
    \/ AgentSearch
    \/ AgentSummarize
    \/ AgentGenerate
    \/ ShowDraft
    \/ UserResponds
    \/ AgentSend

Spec == Init /\ [][Next]_vars

-----------------------------------------------------------------------------
(* Properties *)

AllSpace(s) == \A i \in 1..Len(s) : IsSpace(s[i])
NoSpace(s)  == \A i \in 1..Len(s) : ~IsSpace(s[i])

\* t is s without its leading and trailing whitespace
IsTrimOf(t, s) ==
    /\ t = <<>> \/ (~IsSpace(t[1]) /\ ~IsSpace(t[Len(t)]))
    /\ \E i \in 0..Len(s) :
          /\ i + Len(t) <= Len(s)
          /\ SubSeq(s, i + 1, i + Len(t)) = t
          /\ AllSpace(SubSeq(s, 1, i))
          /\ AllSpace(SubSeq(s, i + Len(t) + 1, Len(s)))

\* e is the last whitespace-separated entry of the header value s
IsLastEntry(e, s) ==
    /\ e # <<>> /\ NoSpace(e)
    /\ \E i \in 0..Len(s) :
          /\ i + Len(e) <= Len(s)
          /\ SubSeq(s, i + 1, i + Len(e)) = e
          /\ i = 0 \/ IsSpace(s[i])
          /\ AllSpace(SubSeq(s, i + Len(e) + 1, Len(s)))

C3_UniformResult ==
    op \in Tools =>
        /\ "escaped" \notin DOMAIN result
        /\ "status" \in DOMAIN result
        /\ result.status \in {"success", "error"}
        /\ result.status = "error" => "error_message" \in DOMAIN result

\* C3 witness: a call in which a collaborator raised an exception that is no
\* HttpError, after both collaborators were initialized.
C3_Witness ==
    /\ op = "summarize_email_with_gemini" /\ service /\ gemini_model
    /\ call.env.get.kind = "Exception"
    /\ result.status = "error"

\* C6: the References header of the composed reply is the references, one
\* space and the message id, trimmed, when references is non-empty, and the
\* message id alone when references is empty; the header is omitted exactly
\* when that string is empty.
C6_References ==
    pc = "composed" =>
        LET joined == arg.references \o <<" ">> \o arg.original_message_id
        IN  IF arg.references # <<>>
            THEN IF AllSpace(joined)
                 THEN ~HasHeader(out, "References")
                 ELSE /\ HasHeader(out, "References")
                      /\ HeaderValue(out, "References") # <<>>
                      /\ IsTrimOf(HeaderValue(out, "References"), joined)
            ELSE IF arg.original_message_id = <<>>
                 THEN ~HasHeader(out, "References")
                 ELSE /\ HasHeader(out, "References")
                      /\ HeaderValue(out, "References") = arg.original_message_id

\* C6 witness: a reply composed from references that end with whitespace, so
\* that trimming matters.
C6_Witness ==
    /\ pc = "composed"
    /\ arg.references = <<"<", "a", " ">>
    /\ arg.original_message_id = <<"a", " ">>
    /\ HeaderValue(out, "References") = <<"<", "a", " ", " ", "a">>

\* C7 as stated: when the message id is non-empty, In-Reply-To is present and
\* equal to it and it is the last entry of References; when it is empty,
\* In-Reply-To is omitted.
C7_AsStated ==
    pc = "composed" =>
        IF arg.original_message_id # <<>>
        THEN /\ HasHeader(out, "In-Reply-To")
             /\ HeaderValue(out, "In-Reply-To") = arg.original_message_id
             /\ HasHeader(out, "References")
             /\ IsLastEntry(arg.original_message_id, HeaderValue(out, "References"))
        ELSE ~HasHeader(out, "In-Reply-To")

\* C7 amended: when the message id is non-empty, In-Reply-To is present and
\* equal to it, and when it moreover holds no whitespace it is the last entry
\* of References; when the message id is empty, In-Reply-To is omitted.
C7_ThreadHeaders ==
    pc = "composed" =>
        IF arg.original_message_id # <<>>
        THEN /\ HasHeader(out, "In-Reply-To")
             /\ HeaderValue(out, "In-Reply-To") = arg.original_message_id
             /\ NoSpace(arg.original_message_id) =>
                   /\ HasHeader(out, "References")
                   /\ IsLastEntry(arg.original_message_id, HeaderValue(out, "References"))
        ELSE ~HasHeader(out, "In-Reply-To")

\* C7 witness: a reply to a message that has an id and earlier references.
C7_Witness ==
    /\ pc = "composed"
    /\ arg.references = <<"<", "a">>
    /\ arg.original_message_id = <<"a", "<">>
    /\ HeaderValue(out, "In-Reply-To") = <<"a", "<">>
    /\ HeaderValue(out, "References") = <<"<", "a", " ", "a", "<">>

\* the subject starts with "re:" in any mix of cases
HasRePrefix(s) ==
    Len(s) >= 3 /\ s[1] \in {"r", "R"} /\ s[2] \in {"e", "E"} /\ s[3] = ":"

\* C8 as stated: for every subject X, normalizing "Re: X" and normalizing X
\* both give "Re: X"; a subject that starts with "Re:" in any case is left
\* unchanged; normalizing twice gives the same as once.
C8_AsStated ==
    pc = "normalized" =>
        /\ NormalizeSubject(RePrefix \o arg) = RePrefix \o arg
        /\ out = RePrefix \o arg
        /\ HasRePrefix(arg) => out = arg
        /\ NormalizeSubject(out) = out

\* C8 amended: for every subject X, normalizing "Re: X" gives "Re: X"; for
\* every X that does not start with "Re:" in any case, normalizing X gives
\* "Re: X"; a subject that starts with "Re:" in any case is left unchanged;
\* normalizing twice gives the same as once.
C8_SubjectRule ==
    pc = "normalized" =>
        /\ NormalizeSubject(RePrefix \o arg) = RePrefix \o arg
        /\ ~HasRePrefix(arg) => out = RePrefix \o arg
        /\ HasRePrefix(arg) => out = arg
        /\ NormalizeSubject(out) = out

\* C8 witness: a subject that has the prefix in upper case, left as it is.
C8_Witness ==
    /\ pc = "normalized"
    /\ arg = <<"R", "E", ":", "x">>
    /\ out = arg

\* the k-th smallest member of a set of indices
Nth(S, k) == CHOOSE i \in S : Cardinality({j \in S : j < i}) = k - 1

\* C9: when the listing of list_recent_emails or search_emails succeeds with
\* ids i1..in, the result is a success whose emails are the records of the ids
\* whose metadata fetch succeeded, in the order of the listing; a failing
\* fetch removes only its own id.
C9_SkipFailedFetch ==
    (op \in {"list_recent_emails", "search_emails"} /\ service /\ call.env.list.kind = "ok") =>
        LET ids  == Get(call.env.list.value, "messages", <<>>)
            good == IF ids = <<>> THEN {} ELSE {i \in 1..Len(ids) : call.env.gets[i] = "ok"}
        IN  /\ result.status = "success"
            /\ Len(result.emails) = Cardinality(good)
            /\ \A k \in 1..Len(result.emails) :
                  /\ result.emails[k].id = ids[Nth(good, k)]
                  /\ result.emails[k] = MetadataRecord(ids[Nth(good, k)], Message(ids[Nth(good, k)]))

\* C9 witness: three ids listed, the fetch of the second fails, and the
\* result holds the first and the third.
C9_Witness ==
    /\ op = "search_emails" /\ service /\ call.env.list.kind = "ok"
    /\ "messages" \in DOMAIN call.env.list.value
    /\ call.env.list.value.messages = <<"m3", "m1", "m2">>
    /\ call.env.gets = <<"ok", "Exception", "ok">>
    /\ result.status = "success"
    /\ Len(result.emails) = 2
    /\ result.emails[1].id = "m3" /\ result.emails[2].id = "m2"

\* C10: summarizing a message whose extracted body is empty gives a success
\* with the fixed placeholder summary, without a call of the generation
\* backend.
C10_EmptyBodyPlaceholder ==
    (/\ op = "summarize_email_with_gemini" /\ service /\ gemini_model
     /\ call.env.get.kind = "ok"
     /\ GetEmailBody(call.env.get.value.payload) = EmptyBody) =>
        /\ result.status = "success"
        /\ result.summary = Placeholder
        /\ result.original_body = <<>>
        /\ Count(trace, "generate_content") = 0

\* C10 witness: the mail whose only part has no data was summarized while the
\* generation backend would have raised.
C10_Witness ==
    /\ op = "summarize_email_with_gemini" /\ service /\ gemini_model
    /\ call.email_id = "m2" /\ call.env.get.kind = "ok"
    /\ call.env.gen.kind = "Exception"
    /\ result.status = "success" /\ result.summary = Placeholder

\* C11: when send_reply cannot obtain the account's own address (the
\* profile lookup raises, or its answer has no address) it returns status
\* error and issues no send request; in every call a send request comes
\* after the profile lookup.
C11_NoSenderNoSend ==
    op = "send_reply" =>
        /\ (service /\ (call.env.profile.kind # "ok"
                         \/ Get(call.env.profile.value, "emailAddress", <<>>) = <<>>)) =>
              /\ result.status = "error"
              /\ Count(trace, "messages.send") = 0
              /\ sendRequests = 0 /\ outbox = <<>>
        /\ \A i \in 1..Len(trace) :
              trace[i] = "messages.send" => \E j \in 1..(i - 1) : trace[j] = "getProfile"

\* C11 witness: the profile had no address while the mailbox service would
\* have accepted the message.
C11_Witness ==
    /\ op = "send_reply" /\ service
    /\ call.env.profile.kind = "ok" /\ "emailAddress" \notin DOMAIN call.env.profile.value
    /\ call.env.send.kind = "ok"
    /\ result.status = "error" /\ trace = <<"getProfile">>

\* C12: when the listing of list_recent_emails or search_emails gives no
\* messages, the result is a success with an empty emails list and no
\* message is fetched.
C12_EmptyListing ==
    (/\ op \in {"list_recent_emails", "search_emails"} /\ service
     /\ call.env.list.kind = "ok"
     /\ Get(call.env.list.value, "messages", <<>>) = <<>>) =>
        /\ result.status = "success"
        /\ "emails" \in DOMAIN result /\ result.emails = <<>>
        /\ Count(trace, "messages.get") = 0

\* C12 witness: a query that matched nothing, answered without a 'messages'
\* key.
C12_Witness ==
    /\ op = "search_emails" /\ service
    /\ call.env.list.kind = "ok" /\ "messages" \notin DOMAIN call.env.list.value
    /\ result.status = "success" /\ result.emails = <<>>
    /\ trace = <<"messages.list">>

\* the parts without parts of their own, depth first and left to right
RECURSIVE LeavesOf(_)
LeavesOf(payload) ==
    IF "parts" \in DOMAIN payload
    THEN LET RECURSIVE Cat(_)
             Cat(i) == IF i > Len(payload.parts) THEN <<>>
                       ELSE LeavesOf(payload.parts[i]) \o Cat(i + 1)
         IN  Cat(1)
    ELSE <<payload>>

IsPlainLeaf(part) == part.mimeType = "text/plain"
IsHtmlLeaf(part)  == part.mimeType = "text/html"
HasData(part)     == DataOf(part) # NoData

\* every data of the payload is base64url text
WellFormed(payload) ==
    \A i \in 1..Len(LeavesOf(payload)) :
        HasData(LeavesOf(payload)[i]) => DataOf(LeavesOf(payload)[i]).enc = "b64"

\* the decoded text of a part whose data, if any, is base64url text
TextOf(part) == IF HasData(part) THEN DataOf(part).text ELSE <<>>

\* C13 as stated, on payloads whose data are all well-formed and in which a
\* plain-text part carries data: the body extractor returns the decoded text
\* of a plain-text part of the payload, at whatever depth that part is, and
\* never the content of an HTML part.
C13_AsStated ==
    pc = "extracted" =>
        LET leaves == LeavesOf(arg)
        IN  (/\ WellFormed(arg)
             /\ \E i \in 1..Len(leaves) : IsPlainLeaf(leaves[i]) /\ HasData(leaves[i])) =>
                /\ out.kind = "ok"
                /\ \E i \in 1..Len(leaves) :
                      IsPlainLeaf(leaves[i]) /\ HasData(leaves[i]) /\ out.value = TextOf(leaves[i])
                /\ \A i \in 1..Len(leaves) :
                      (IsHtmlLeaf(leaves[i]) /\ HasData(leaves[i])) => out.value # TextOf(leaves[i])

\* C14 as stated, on payloads whose data are all well-formed and whose first
\* HTML part carries data: when the text parts of the payload are all HTML,
\* the body extractor returns the decoded text of the first HTML part in
\* depth-first, left-to-right order, also when a nested multipart with HTML
\* follows it.
C14_AsStated ==
    pc = "extracted" =>
        LET leaves == LeavesOf(arg)
            html   == {i \in 1..Len(leaves) : IsHtmlLeaf(leaves[i])}
        IN  (/\ WellFormed(arg)
             /\ html # {}
             /\ HasData(leaves[CHOOSE i \in html : \A j \in html : i <= j])
             /\ \A i \in 1..Len(leaves) :
                   leaves[i].mimeType \notin {"text/plain", "text/calendar"}) =>
                /\ out.kind = "ok"
                /\ out.value = TextOf(leaves[CHOOSE i \in html : \A j \in html : i <= j])

\* C18 as stated: body extraction ends with a string for every payload, the
\* empty string when no text part carries data, and never with an error, also
\* when the data of a part is malformed.
C18_AsStated ==
    pc = "extracted" =>
        LET leaves == LeavesOf(arg)
        IN  /\ "kind" \in DOMAIN out
            /\ out.kind = "ok"
            /\ (\A i \in 1..Len(leaves) :
                   ~(IsTextType(leaves[i].mimeType) /\ HasData(leaves[i]))) => out.value = <<>>

\* C15 as stated: for every From header, the sender address is the text
\* strictly between "<" and ">" when both are present with "<" before ">"
\* (taken as the first "<" and the first ">"), and the header unchanged
\* otherwise.
C15_AsStated ==
    pc = "address" =>
        IF Find(arg, "<") >= 0 /\ Find(arg, ">") >= 0 /\ Find(arg, "<") < Find(arg, ">")
        THEN out = Slice(arg, Find(arg, "<") + 1, Find(arg, ">"))
        ELSE out = arg

\* some "<" of the header comes before some ">"
HasBracketPair(s) == \E i, j \in 1..Len(s) : i < j /\ s[i] = "<" /\ s[j] = ">"

\* C16 as stated: in every successful summarize result, when the From header
\* holds an angle-bracket pair, sender_email holds no angle bracket and no
\* display name (it is the text a pair of the header encloses), and when the
\* header holds no pair, sender_email is the raw header.
C16_AsStated ==
    (pc = "summarized" /\ out.status = "success") =>
        IF HasBracketPair(arg)
        THEN /\ \A k \in 1..Len(out.sender_email) : out.sender_email[k] \notin {"<", ">"}
             /\ \E i, j \in 1..Len(arg) :
                   /\ i < j /\ arg[i] = "<" /\ arg[j] = ">"
                   /\ out.sender_email = SubSeq(arg, i + 1, j - 1)
        ELSE out.sender_email = arg

\* C17 as stated: when the mailbox service or the generation model is
\* unavailable, whichever of the two, each of the five operations returns
\* status error without calling a collaborator.
C17_AsStated ==
    (op \in Tools /\ (~service \/ ~gemini_model)) =>
        (result.status = "error" /\ trace = <<>>)

\* C17 amended: each operation fails fast when a collaborator it uses is
\* unavailable: list_recent_emails, search_emails and send_reply without the
\* mailbox service, generate_reply_with_gemini without the generation model,
\* summarize_email_with_gemini without either; it returns status error
\* (service or model unavailable) without calling a collaborator.
C17_FailFast ==
    /\ (op \in {"list_recent_emails", "search_emails", "send_reply"} /\ ~service) =>
          (result = Error("Gmail service not available.") /\ trace = <<>>)
    /\ (op = "generate_reply_with_gemini" /\ ~gemini_model) =>
          (result = Error("Gemini model not initialized.") /\ trace = <<>>)
    /\ (op = "summarize_email_with_gemini" /\ ~service) =>
          (result = Error("Gmail service not available.") /\ trace = <<>>)
    /\ (op = "summarize_email_with_gemini" /\ service /\ ~gemini_model) =>
          (result = Error("Gemini model not initialized.") /\ trace = <<>>)
    /\ (op = "send_reply" /\ ~service) => (outbox = <<>> /\ sendRequests = 0)

\* C17 witness: a summary asked of an agent whose mailbox service is there
\* and whose generation model is not, while the fetch would have succeeded.
C17_Witness ==
    /\ op = "summarize_email_with_gemini" /\ service /\ ~gemini_model
    /\ call.env.get.kind = "ok"
    /\ result.status = "error" /\ trace = <<>>

\* C19: the tools handed to the agent are all or nothing: all five operations
\* when both the mailbox service and the generation model initialized, none
\* otherwise; send_reply is never there without summarize and generate-reply,
\* no tool is there while a collaborator is unavailable, and the agent calls
\* only tools it was handed.
C19_AllOrNothing ==
    /\ (service /\ gemini_model) =>
          agent_tools = {"list_recent_emails", "search_emails", "summarize_email_with_gemini",
                         "generate_reply_with_gemini", "send_reply"}
    /\ (~service \/ ~gemini_model) => agent_tools = {}
    /\ "send_reply" \in agent_tools =>
          {"summarize_email_with_gemini", "generate_reply_with_gemini"} \subseteq agent_tools
    /\ op \in Tools => (op \in agent_tools /\ service /\ gemini_model)

\* C19 witness: an agent that was handed the five tools has called send_reply.
C19_Witness ==
    /\ service /\ gemini_model
    /\ Cardinality(agent_tools) = 5
    /\ op = "send_reply" /\ result.status = "success"

=============================================================================
